---- MODULE Spec2Model ----
(***************************************************************************)
(* State-machine model of LLMAnalysisStrategy                              *)
(* (packages/github-agent/src/services/analysis/strategies/                *)
(* LLMAnalysisStrategy.ts).                                                *)
(*                                                                         *)
(* All scores are fixed-point numbers in units of 1/10000, so 0.3 is 3000  *)
(* and 1 is 10000.  Every value the model computes is an exact multiple of *)
(* that unit for the inputs it draws.                                      *)
(*                                                                         *)
(* A file path is modelled by what the scorers derive from it: the number  *)
(* of keywords of each tier found in its file name, directory name or full *)
(* path, and which of the bonus / exclusion patterns it matches.  A file's *)
(* content is modelled by its length and by the number of occurrences of   *)
(* each keyword in it.                                                     *)
(***************************************************************************)
EXTENDS Integers, Sequences, FiniteSets, TLC

VARIABLES
    pc,                 \* position of the running call: idle, inferring, pass2, loop, await,
                        \* returned, rejected
    op,                 \* the method that was invoked
    batchSize,          \* this.batchSize
    maxFilesToAnalyze,  \* this.maxFilesToAnalyze
    context,            \* the AnalysisContext argument
    fileScores,         \* findCandidateFiles: Map path -> pass-1 score, in insertion order
    topCandidates,      \* findCandidateFiles: paths whose content is loaded
    loadIdx,            \* findCandidateFiles: position of the pass-2 loop
    candidates,         \* findCandidateFiles: accumulated candidates
    candidateFiles,     \* findRelevantFiles: result of findCandidateFiles
    filesToAnalyze,     \* findRelevantFiles: candidateFiles.slice(0, maxFilesToAnalyze)
    i,                  \* findRelevantFiles: index of the batch loop
    batch,              \* findRelevantFiles: the current batch
    batchResults,       \* one slot per file of the batch: Pending or {file, llmAnalysis}
    llmAnalyzedFiles,   \* findRelevantFiles: the retained files
    result,             \* the list the call returned
    available,          \* what isAvailable resolved to
    serviceCheck,       \* history: how llmService.isAvailable() ended
    usualJudgment,      \* environment: what the service answers unless a call deviates
    batchNo,            \* history: number of batches started
    callsStarted,       \* history: path -> number of analyzeCodeRelevance calls started
    callBatch,          \* history: path -> batch in which its call was started
    callResult,         \* history: path -> outcomes of its settled calls
    contentReads,       \* history: paths handed to loadFileContent
    args,               \* the argument of a call that takes no AnalysisContext
    keywordInference    \* history: how llmService.analyzeIssueForKeywords() ended

vars == <<pc, op, args, keywordInference, batchSize, maxFilesToAnalyze, context, fileScores, topCandidates,
          loadIdx, candidates, candidateFiles, filesToAnalyze, i, batch, batchResults,
          llmAnalyzedFiles, result, available, serviceCheck, usualJudgment, batchNo,
          callsStarted, callBatch, callResult, contentReads, args, keywordInference>>

----------------------------------------------------------------------------
(* Bounds of the model *)

\* largest number of paths in context.filteredFiles
MaxPaths == 11

\* largest number of symbols in context.analysisResult.symbolAnalysis.symbols
MaxSymbols == 12

\* largest number of external calls of one run that settle with anything
\* but the usual judgment of the service
MaxDeviations == 2

\* number of loop iterations followed once the batch index has gone negative
MaxSpin == 2

----------------------------------------------------------------------------
(* Program constants *)

DefaultBatchSize == 3
DefaultMaxFilesToAnalyze == 8
PathScoreThreshold == 3000
CombinedScoreThreshold == 5000
ContentLimit == 4000
FallbackFiles == 5
MaxFilesReturned == 10
MaxSymbolsReturned == 10
MaxApisReturned == 8
SymbolThreshold == 5000
ApiThreshold == 3000

----------------------------------------------------------------------------
(* JavaScript helpers *)

Min(a, b) == IF a < b THEN a ELSE b
Max(a, b) == IF a > b THEN a ELSE b

\* Array.prototype.slice: a negative index counts from the end
RelativeIndex(k, len) == IF k < 0 THEN Max(len + k, 0) ELSE Min(k, len)

Slice(s, start, end) ==
    LET from == RelativeIndex(start, Len(s))
        to   == RelativeIndex(end, Len(s))
    IN  IF from >= to THEN <<>> ELSE SubSeq(s, from + 1, to)

\* mutant of DescendingRank: the comparator is a - b
AscendingRank(keys, k) ==
    1 + Cardinality({j \in 1..Len(keys) :
                        keys[j] < keys[k] \/ (keys[j] = keys[k] /\ j < k)})

\* position of element k in a stable sort by descending key
DescendingRank(keys, k) ==
    1 + Cardinality({j \in 1..Len(keys) :
                        keys[j] > keys[k] \/ (keys[j] = keys[k] /\ j < k)})

\* Array.prototype.sort with the comparator (a, b) => b.key - a.key (stable)
SortDescending(s, keys) ==
    [r \in 1..Len(s) |-> s[CHOOSE k \in 1..Len(s) : DescendingRank(keys, k) = r]]

RECURSIVE SumSeq(_)
SumSeq(s) == IF s = <<>> THEN 0 ELSE Head(s) + SumSeq(Tail(s))

\* the value of `options.x || dflt`: undefined (no field) and 0 are falsy
OrDefault(options, field, dflt) ==
    IF field \in DOMAIN options /\ options[field] # 0 THEN options[field] ELSE dflt

----------------------------------------------------------------------------
(* Inputs: paths, contents, workspaces *)

NoMatches == [primary |-> <<>>, secondary |-> <<>>, technical |-> <<>>, contextual |-> <<>>]

\* readFile failed (loadFileContent returns null)
Unreadable == [readable |-> FALSE, length |-> 0, matches |-> NoMatches]

Text(len, m) == [readable |-> TRUE, length |-> len, matches |-> m]

NoHits == [primaryFile |-> 0, primaryDir |-> 0, secondaryFile |-> 0, secondaryDir |-> 0,
           technical |-> 0, contextual |-> 0]

\* The kinds of file a workspace is made of.  No kind has a score equal to a
\* threshold, so the comparisons do not depend on floating-point rounding.
PathKinds == <<
    \* 1: src/services/UserService.ts
    [hits |-> [NoHits EXCEPT !.primaryFile = 1, !.secondaryFile = 1],
     codeFile |-> TRUE, importantFile |-> FALSE, importantDir |-> TRUE, excluded |-> FALSE,
     content |-> Text(2000, [NoMatches EXCEPT !.primary = <<6>>, !.secondary = <<4>>])],
    \* 2: src/utils/logger.ts
    [hits |-> NoHits,
     codeFile |-> TRUE, importantFile |-> FALSE, importantDir |-> TRUE, excluded |-> FALSE,
     content |-> Text(500, [NoMatches EXCEPT !.primary = <<1>>])],
    \* 3: src/auth/login/UserLoginSession.ts, three primary keywords in the file name
    [hits |-> [NoHits EXCEPT !.primaryFile = 3, !.secondaryFile = 1, !.technical = 1],
     codeFile |-> TRUE, importantFile |-> FALSE, importantDir |-> FALSE, excluded |-> FALSE,
     content |-> Text(5000, [NoMatches EXCEPT !.primary = <<30, 2, 0>>, !.contextual = <<3>>])],
    \* 4: node_modules/user/index.js, excluded but still above the path threshold
    [hits |-> [NoHits EXCEPT !.primaryDir = 1],
     codeFile |-> TRUE, importantFile |-> TRUE, importantDir |-> FALSE, excluded |-> TRUE,
     content |-> Text(1000, NoMatches)],
    \* 5: docs/notes, nothing matches
    [hits |-> NoHits,
     codeFile |-> FALSE, importantFile |-> FALSE, importantDir |-> FALSE, excluded |-> FALSE,
     content |-> Text(300, NoMatches)],
    \* 6: src/api/user.controller.ts, cannot be read
    [hits |-> [NoHits EXCEPT !.primaryFile = 1],
     codeFile |-> TRUE, importantFile |-> FALSE, importantDir |-> TRUE, excluded |-> FALSE,
     content |-> Unreadable],
    \* 7: src/index.ts, an empty file
    [hits |-> [NoHits EXCEPT !.contextual = 1],
     codeFile |-> TRUE, importantFile |-> TRUE, importantDir |-> FALSE, excluded |-> FALSE,
     content |-> Text(0, NoMatches)] >>

\* A workspace cycles through one of these sequences of kinds.
Layouts == << <<1, 2, 3>>, <<2, 5, 1, 4, 6, 3, 7>>, <<4, 6, 7, 5>> >>

\* context.filteredFiles of a workspace of n paths; a path is named by its position
FilteredFiles(layout, n) ==
    [p \in 1..n |-> [path |-> p, kind |-> Layouts[layout][((p - 1) % Len(Layouts[layout])) + 1]]]

\* the sizes of the workspaces drawn
WorkspaceSizes == {0, 1, 2, 3, 4, 6, 7, MaxPaths}

Paths == 1..MaxPaths

----------------------------------------------------------------------------
(* The external inference service *)

\* the value null
Null == [null |-> TRUE]

\* the call threw an Error (the promise of analyzeCodeRelevance rejected)
Thrown == [thrown |-> TRUE]

\* no keyword inference has settled yet
NotInferred == [none |-> TRUE]

\* values of relevance_score the service may return: 0.9 and 1.5
ExternalScores == {9000, 15000}

Judgment(relevant, score) ==
    [is_relevant |-> relevant, relevance_score |-> score, reason |-> "reason"]

Judgments == {Judgment(TRUE, s) : s \in ExternalScores} \cup {Judgment(FALSE, 2000)}

\* how one analyzeCodeRelevance call can settle: a judgment, or an Error thrown
Outcomes == Judgments \cup {Thrown}

\* what the service may answer to most calls of a run: relevant with score 0.9,
\* or not relevant
UsualJudgments == {Judgment(TRUE, 9000), Judgment(FALSE, 2000)}

\* number of settled calls of this run whose outcome is not the usual judgment
Deviations ==
    Cardinality({p \in Paths : \E k \in 1..Len(callResult[p]) :
                                   callResult[p][k] # usualJudgment})

\* how llmService.isAvailable() can end
AvailabilityChecks ==
    {"returns true", "returns false", "throws",
     "promise of true", "promise of false", "rejected promise"}

----------------------------------------------------------------------------
(* The constructor, lines 25-36 *)

OptionCases ==
    { [x \in {} |-> 0],
      [batchSize |-> 0, maxFilesToAnalyze |-> 0],
      [batchSize |-> 2, maxFilesToAnalyze |-> 3],
      [batchSize |-> 1, maxFilesToAnalyze |-> 1],
      [batchSize |-> 4, maxFilesToAnalyze |-> 11],
      [batchSize |-> 0 - 1, maxFilesToAnalyze |-> 4],
      [batchSize |-> 0 - 2, maxFilesToAnalyze |-> 3],
      [batchSize |-> 2, maxFilesToAnalyze |-> 0 - 1] }

----------------------------------------------------------------------------
(* The scorers *)

KindOf(path) == PathKinds[context.filteredFiles[path].kind]

\* calculateFilePathScore, lines 324-429
calculateFilePathScore(kind) ==
    LET h == kind.hits
        keywordScore == 30000 * h.primaryFile + 15000 * h.primaryDir
                      + 20000 * h.secondaryFile + 10000 * h.secondaryDir
                      + 10000 * h.technical + 5000 * h.contextual
        bonus == (IF kind.codeFile THEN 10000 ELSE 0)
               + (IF kind.importantFile THEN 15000 ELSE 0)
               + (IF kind.importantDir THEN 8000 ELSE 0)
        score == keywordScore + bonus
    IN  IF kind.excluded THEN score \div 10 ELSE score    \* score *= 0.1

\* contribution of one keyword found `matches` times: Math.min(matches * 0.1, 2)
KeywordContribution(matches) == Min(matches * 1000, 20000)

\* a content scorer in which a primary keyword counts twice
calculateContentScoreByTier(content) ==
    LET m == content.matches
        allKeywords == m.primary \o m.primary \o m.secondary \o m.technical \o m.contextual
        score == SumSeq([k \in 1..Len(allKeywords) |-> KeywordContribution(allKeywords[k])])
    IN  IF content.length > 1000 THEN (score * 1000) \div content.length ELSE score

\* calculateContentScore, lines 431-452
calculateContentScore(content) ==
    LET m == content.matches
        allKeywords == m.primary \o m.secondary \o m.technical \o m.contextual
        score == SumSeq([k \in 1..Len(allKeywords) |-> KeywordContribution(allKeywords[k])])
    IN  IF content.length > 1000 THEN (score * 1000) \div content.length ELSE score

\* first pass of findCandidateFiles, lines 221-229: the entries of the Map
PathScoreEntries(files) ==
    LET scored == [p \in 1..Len(files) |->
                     [file |-> files[p].path,
                      score |-> calculateFilePathScore(PathKinds[files[p].kind])]]
    IN  SelectSeq(scored, LAMBDA e : e.score > PathScoreThreshold)

\* lines 232-235
TopCandidates(entries, maxFiles) ==
    LET sorted == SortDescending(entries, [k \in 1..Len(entries) |-> entries[k].score])
        kept   == Slice(sorted, 0, maxFiles * 2)
    IN  [k \in 1..Len(kept) |-> kept[k].file]

ScoreOf(entries, file) ==
    LET hit == SelectSeq(entries, LAMBDA e : e.file = file)
    IN  IF hit = <<>> THEN 0 ELSE hit[1].score

RelevanceScores(files) == [k \in 1..Len(files) |-> files[k].relevanceScore]

\* a pass 2 that takes the null of an unreadable file for an empty content
CandidatesOfWhateverWasRead(file, content, entries) ==
    LET finalScore == ScoreOf(entries, file) + calculateContentScore(content)
    IN  IF finalScore > CombinedScoreThreshold
        THEN << [path |-> file,
                 content |-> Min(content.length, ContentLimit),
                 relevanceScore |-> Min(finalScore \div 10, 10000)] >>
        ELSE <<>>

\* the candidate pushed for a file whose content was read, lines 249-262
CandidatesOf(file, content, entries) ==
    LET finalScore == ScoreOf(entries, file) + calculateContentScore(content)
    IN  IF content.readable /\ content.length > 0 /\ finalScore > CombinedScoreThreshold
        THEN << [path |-> file,
                 content |-> Min(content.length, ContentLimit),
                 relevanceScore |-> Min(finalScore \div 10, 10000)] >>
        ELSE <<>>

\* mutant of RetainedOf: the test of is_relevant is lost
RetainedWhateverTheVerdict(slot) ==
    IF slot.llmAnalysis # Null
    THEN << [path |-> slot.file.path,
             content |-> slot.file.content,
             relevanceScore |-> slot.llmAnalysis.relevance_score,
             reason |-> slot.llmAnalysis.reason] >>
    ELSE << slot.file >>

\* what the loop of lines 96-111 pushes for one settled slot
RetainedOf(slot) ==
    IF slot.llmAnalysis # Null /\ slot.llmAnalysis.is_relevant
    THEN << [path |-> slot.file.path,
             content |-> slot.file.content,
             relevanceScore |-> slot.llmAnalysis.relevance_score,
             reason |-> slot.llmAnalysis.reason] >>
    ELSE IF slot.llmAnalysis # Null THEN <<>>
    ELSE << slot.file >>

RECURSIVE Aggregate(_)
Aggregate(slots) ==
    IF slots = <<>> THEN <<>> ELSE RetainedOf(Head(slots)) \o Aggregate(Tail(slots))

\* a wrapper promise that has not settled yet
PendingSlot(file) ==
    [settled |-> FALSE, rejected |-> FALSE, file |-> file, llmAnalysis |-> Null]

\* mutant of WrapperResult: the call is not wrapped in try / catch
WrapperWithoutCatch(file, outcome) ==
    IF outcome = Thrown
    THEN [settled |-> TRUE, rejected |-> TRUE, file |-> file, llmAnalysis |-> Null]
    ELSE [settled |-> TRUE, rejected |-> FALSE, file |-> file, llmAnalysis |-> outcome]

\* the async wrapper of lines 80-92 around one call: what its promise settles with.
\* The catch block reads error.message, so the thrown value is taken to be an Error.
WrapperResult(file, outcome) ==
    IF outcome = Thrown
    THEN [settled |-> TRUE, rejected |-> FALSE, file |-> file, llmAnalysis |-> Null]
    ELSE [settled |-> TRUE, rejected |-> FALSE, file |-> file, llmAnalysis |-> outcome]

\* mutant of AllSettled: Promise.race in place of Promise.all
FirstSettled(slots) == \E k \in 1..Len(slots) : slots[k].settled /\ ~slots[k].rejected

\* Promise.all(batchPromises), line 94: fulfilled once every promise is fulfilled
AllSettled(slots) == \A k \in 1..Len(slots) : slots[k].settled /\ ~slots[k].rejected

\* Promise.all(batchPromises), line 94: rejected as soon as one promise is rejected
AnyRejected(slots) == \E k \in 1..Len(slots) : slots[k].rejected

\* mutant of RankedFiles: the fallback returns the same number of files as the ranking
RankedFilesLongFallback(retained, fallback) ==
    IF Len(retained) = 0
    THEN Slice(fallback, 0, MaxFilesReturned)
    ELSE Slice(SortDescending(retained, RelevanceScores(retained)), 0, MaxFilesReturned)

\* lines 114-123
RankedFiles(retained, fallback) ==
    IF Len(retained) = 0
    THEN Slice(fallback, 0, FallbackFiles)
    ELSE Slice(SortDescending(retained, RelevanceScores(retained)), 0, MaxFilesReturned)

\* calls started and not yet settled
InFlight == Cardinality({k \in 1..Len(batchResults) : ~batchResults[k].settled})

----------------------------------------------------------------------------
(* Initial state: the strategy has been constructed *)

NoContext == [filteredFiles |-> <<>>, hasSymbolAnalysis |-> FALSE, symbols |-> <<>>]

Init ==
    /\ \E options \in OptionCases :
          /\ batchSize = OrDefault(options, "batchSize", DefaultBatchSize)
          /\ maxFilesToAnalyze = OrDefault(options, "maxFilesToAnalyze", DefaultMaxFilesToAnalyze)
    /\ pc = "idle"
    /\ op = "none"
    /\ context = NoContext
    /\ fileScores = <<>>
    /\ topCandidates = <<>>
    /\ loadIdx = 1
    /\ candidates = <<>>
    /\ candidateFiles = <<>>
    /\ filesToAnalyze = <<>>
    /\ i = 0
    /\ batch = <<>>
    /\ batchResults = <<>>
    /\ llmAnalyzedFiles = <<>>
    /\ result = <<>>
    /\ available = "unset"
    /\ serviceCheck = "none"
    /\ usualJudgment = Judgment(TRUE, 9000)
    /\ batchNo = 0
    /\ callsStarted = [p \in Paths |-> 0]
    /\ callBatch = [p \in Paths |-> 0]
    /\ callResult = [p \in Paths |-> <<>>]
    /\ contentReads = {}
    /\ args = <<>>
    /\ keywordInference = NotInferred

----------------------------------------------------------------------------
(* findRelevantFiles, lines 59-124, with findCandidateFiles, lines 214-275 *)

\* the call runs up to the first await of findCandidateFiles: pass 1
CallFindRelevantFiles(layout, n, usual) ==
    /\ pc = "idle"
    /\ usualJudgment' = usual
    /\ pc' = "pass2"
    /\ op' = "findRelevantFiles"
    /\ context' = [NoContext EXCEPT !.filteredFiles = FilteredFiles(layout, n)]
    /\ fileScores' = PathScoreEntries(context'.filteredFiles)
    /\ topCandidates' = TopCandidates(fileScores', maxFilesToAnalyze)
    /\ loadIdx' = 1
    /\ candidates' = <<>>
    /\ UNCHANGED <<args, keywordInference, batchSize, maxFilesToAnalyze, candidateFiles, filesToAnalyze, i, batch,
                   batchResults, llmAnalyzedFiles, result, available, serviceCheck, batchNo,
                   callsStarted, callBatch, callResult, contentReads>>

\* one iteration of the loop of lines 246-267: loadFileContent settles
LoadFileContent ==
    /\ pc = "pass2"
    /\ loadIdx <= Len(topCandidates)
    /\ LET file == topCandidates[loadIdx]
       IN  /\ contentReads' = contentReads \cup {file}
           /\ candidates' = candidates \o CandidatesOf(file, KindOf(file).content, fileScores)
    /\ loadIdx' = loadIdx + 1
    /\ UNCHANGED <<pc, op, args, keywordInference, batchSize, maxFilesToAnalyze, context, fileScores, topCandidates,
                   candidateFiles, filesToAnalyze, i, batch, batchResults, llmAnalyzedFiles,
                   result, available, serviceCheck, usualJudgment, batchNo, callsStarted, callBatch, callResult>>

\* findCandidateFiles returns (lines 269-274); findRelevantFiles resumes (lines 66-72)
ResumeWithCandidates ==
    /\ pc = "pass2"
    /\ loadIdx > Len(topCandidates)
    /\ candidateFiles' = SortDescending(candidates, RelevanceScores(candidates))
    /\ filesToAnalyze' = Slice(candidateFiles', 0, maxFilesToAnalyze)
    /\ llmAnalyzedFiles' = <<>>
    /\ i' = 0
    /\ pc' = "loop"
    /\ UNCHANGED <<op, args, keywordInference, batchSize, maxFilesToAnalyze, context, fileScores, topCandidates,
                   loadIdx, candidates, batch, batchResults, result, available, serviceCheck, usualJudgment, batchNo,
                   callsStarted, callBatch, callResult, contentReads>>

\* a loop test that lets the index reach the length of the list
LoopTestInclusive(index, files) == index <= Len(files)

\* line 75: i < filesToAnalyze.length
LoopTest(index, files) == index < Len(files)

\* lines 75-94: the loop test holds, the batch is cut and all its calls are started
StartBatch ==
    /\ pc = "loop"
    /\ LoopTest(i, filesToAnalyze)
    /\ i >= 0 - MaxSpin
    /\ batch' = Slice(filesToAnalyze, i, i + batchSize)
    /\ batchResults' = [k \in 1..Len(batch') |-> PendingSlot(batch'[k])]
    /\ batchNo' = batchNo + 1
    /\ LET started == {batch'[k].path : k \in 1..Len(batch')}
       IN  /\ callsStarted' = [p \in Paths |->
                                 callsStarted[p]
                                 + Cardinality({k \in 1..Len(batch') : batch'[k].path = p})]
           /\ callBatch' = [p \in Paths |-> IF p \in started THEN batchNo' ELSE callBatch[p]]
    /\ pc' = "await"
    /\ UNCHANGED <<op, args, keywordInference, batchSize, maxFilesToAnalyze, context, fileScores, topCandidates,
                   loadIdx, candidates, candidateFiles, filesToAnalyze, i, llmAnalyzedFiles,
                   result, available, serviceCheck, usualJudgment, callResult, contentReads>>

\* one analyzeCodeRelevance call settles and its wrapper (lines 80-92) returns
SettleCall(k, outcome) ==
    /\ pc = "await"
    /\ k \in 1..Len(batchResults)
    /\ ~batchResults[k].settled
    /\ outcome # usualJudgment => Deviations < MaxDeviations
    /\ batchResults' = [batchResults EXCEPT ![k] = WrapperResult(batch[k], outcome)]
    /\ callResult' = [callResult EXCEPT ![batch[k].path] = Append(@, outcome)]
    /\ UNCHANGED <<pc, op, args, keywordInference, batchSize, maxFilesToAnalyze, context, fileScores, topCandidates,
                   loadIdx, candidates, candidateFiles, filesToAnalyze, i, batch,
                   llmAnalyzedFiles, result, available, serviceCheck, usualJudgment, batchNo, callsStarted, callBatch,
                   contentReads>>

\* Promise.all resolves: lines 96-111, then i += this.batchSize
ResumeAfterBatch ==
    /\ pc = "await"
    /\ AllSettled(batchResults) \/ AnyRejected(batchResults)
    /\ IF AnyRejected(batchResults)
       THEN \* the await of line 94 throws and findRelevantFiles rejects
            /\ pc' = "rejected"
            /\ UNCHANGED <<llmAnalyzedFiles, batchResults, i>>
       ELSE /\ llmAnalyzedFiles' = llmAnalyzedFiles \o Aggregate(batchResults)
            /\ batchResults' = <<>>
            /\ i' = i + batchSize
            /\ pc' = "loop"
    /\ UNCHANGED <<op, args, keywordInference, batchSize, maxFilesToAnalyze, context, fileScores, topCandidates,
                   loadIdx, candidates, candidateFiles, filesToAnalyze, batch, result,
                   available, serviceCheck, usualJudgment, batchNo, callsStarted, callBatch, callResult, contentReads>>

\* the loop test fails: lines 114-123
ReturnFiles ==
    /\ pc = "loop"
    /\ ~LoopTest(i, filesToAnalyze)
    /\ result' = RankedFiles(llmAnalyzedFiles, candidateFiles)
    /\ pc' = "returned"
    /\ UNCHANGED <<op, args, keywordInference, batchSize, maxFilesToAnalyze, context, fileScores, topCandidates,
                   loadIdx, candidates, candidateFiles, filesToAnalyze, i, batch,
                   batchResults, llmAnalyzedFiles, available, serviceCheck, usualJudgment, batchNo, callsStarted,
                   callBatch, callResult, contentReads>>

----------------------------------------------------------------------------
(* findRelevantSymbols, findRelevantApis and isAvailable *)

\* the symbols a symbol-analysis result is made of
SymbolKinds == <<
    \* 1: getUserController, comment "GET /users/:id"
    [relevance |-> 7000, apiRelated |-> TRUE, method |-> "GET"],
    \* 2: UserRepository
    [relevance |-> 6000, apiRelated |-> FALSE, method |-> "none"],
    \* 3: formatDate
    [relevance |-> 1000, apiRelated |-> FALSE, method |-> "none"],
    \* 4: PaymentHandler
    [relevance |-> 4000, apiRelated |-> TRUE, method |-> "none"],
    \* 5: deleteCacheService
    [relevance |-> 2000, apiRelated |-> TRUE, method |-> "DELETE"] >>

SymbolLayouts == << <<1>>, <<3, 1, 2, 4, 5>> >>

SymbolSizes == {0, 1, 5, MaxSymbols}

Symbols(layout, n) ==
    [k \in 1..n |->
        [name |-> k, kind |-> SymbolLayouts[layout][((k - 1) % Len(SymbolLayouts[layout])) + 1]]]

\* BaseAnalysisStrategy.calculateSymbolRelevance: the keyword score of a symbol
calculateSymbolRelevance(symbol) == SymbolKinds[symbol.kind].relevance

\* line 169-175: the symbol text contains one of the API terms
isApiRelated(symbol) == SymbolKinds[symbol.kind].apiRelated

\* extractHttpMethod, lines 476-487, with `|| 'UNKNOWN'` of line 183
HttpMethodOf(symbol) ==
    IF SymbolKinds[symbol.kind].method = "none" THEN "UNKNOWN"
    ELSE SymbolKinds[symbol.kind].method

\* mutant of RelevantSymbols: the final slice is lost
RelevantSymbolsUncapped(ctx) ==
    IF ~ctx.hasSymbolAnalysis THEN <<>>
    ELSE LET kept == SelectSeq(ctx.symbols,
                               LAMBDA sym : calculateSymbolRelevance(sym) > SymbolThreshold)
         IN  [k \in 1..Len(kept) |-> [name |-> kept[k].name]]

\* lines 130-154
RelevantSymbols(ctx) ==
    IF ~ctx.hasSymbolAnalysis THEN <<>>
    ELSE LET kept == SelectSeq(ctx.symbols,
                               LAMBDA sym : calculateSymbolRelevance(sym) > SymbolThreshold)
             relevantSymbols == [k \in 1..Len(kept) |-> [name |-> kept[k].name]]
         IN  Slice(relevantSymbols, 0, MaxSymbolsReturned)

\* lines 161-190
RelevantApis(ctx) ==
    IF ~ctx.hasSymbolAnalysis THEN <<>>
    ELSE LET kept == SelectSeq(ctx.symbols,
                               LAMBDA sym : /\ isApiRelated(sym)
                                            /\ calculateSymbolRelevance(sym) > ApiThreshold)
             relevantApis == [k \in 1..Len(kept) |->
                                [path |-> kept[k].name, method |-> HttpMethodOf(kept[k])]]
         IN  Slice(relevantApis, 0, MaxApisReturned)

SymbolContexts ==
    {NoContext} \cup
    {[NoContext EXCEPT !.hasSymbolAnalysis = TRUE, !.symbols = Symbols(layout, n)] :
        layout \in 1..Len(SymbolLayouts), n \in SymbolSizes}

CallFindRelevantSymbols(ctx) ==
    /\ pc = "idle"
    /\ op' = "findRelevantSymbols"
    /\ context' = ctx
    /\ result' = RelevantSymbols(ctx)
    /\ pc' = "returned"
    /\ UNCHANGED <<args, keywordInference, batchSize, maxFilesToAnalyze, fileScores, topCandidates, loadIdx,
                   candidates, candidateFiles, filesToAnalyze, i, batch, batchResults,
                   llmAnalyzedFiles, available, serviceCheck, usualJudgment, batchNo, callsStarted,
                   callBatch, callResult, contentReads>>

CallFindRelevantApis(ctx) ==
    /\ pc = "idle"
    /\ op' = "findRelevantApis"
    /\ context' = ctx
    /\ result' = RelevantApis(ctx)
    /\ pc' = "returned"
    /\ UNCHANGED <<args, keywordInference, batchSize, maxFilesToAnalyze, fileScores, topCandidates, loadIdx,
                   candidates, candidateFiles, filesToAnalyze, i, batch, batchResults,
                   llmAnalyzedFiles, available, serviceCheck, usualJudgment, batchNo, callsStarted,
                   callBatch, callResult, contentReads>>

\* the body of isAvailable, lines 204-212: what the returned promise settles with.
\* `return this.llmService.isAvailable()` is not awaited: a value or promise the
\* service returns resolves the promise of isAvailable; only a synchronous throw
\* reaches the catch block.
IsAvailableSettles(check) ==
    CASE check = "returns true"     -> "true"
      [] check = "returns false"    -> "false"
      [] check = "throws"           -> "false"
      [] check = "promise of true"  -> "true"
      [] check = "promise of false" -> "false"
      [] check = "rejected promise" -> "rejects"

CallIsAvailable(check) ==
    /\ pc = "idle"
    /\ op' = "isAvailable"
    /\ serviceCheck' = check
    /\ IF IsAvailableSettles(check) = "rejects"
       THEN pc' = "rejected" /\ UNCHANGED available
       ELSE pc' = "returned" /\ available' = IsAvailableSettles(check)
    /\ UNCHANGED <<args, keywordInference, batchSize, maxFilesToAnalyze, context, fileScores, topCandidates,
                   loadIdx, candidates, candidateFiles, filesToAnalyze, i, batch,
                   batchResults, llmAnalyzedFiles, result, usualJudgment, batchNo, callsStarted,
                   callBatch, callResult, contentReads>>

----------------------------------------------------------------------------
(* generateKeywords, lines 38-57, and the rule-based fallback, lines 277-322 *)

\* largest number of lexical tokens in the text of an issue
MaxTokens == 17

\* The text of an issue is modelled as a sequence of lexical tokens.  A token is
\* a word and the kind of the word; the kind records which of the patterns of
\* extractSecondaryKeywords (1 camelCase, 2 snake_case, 3 PascalCase) and of
\* extractContextualKeywords (1-3 quoted, 4 version, 5 constant, 6 error:,
\* 7 failed:) match it, 0 for none, and how long the match is once quotes and
\* spaces are stripped.  primary and technical say whether the base-class
\* extractors pick the word.
WordKinds == <<
    [example |-> "getUserById", secondary |-> 1, contextual |-> 0, stripped |-> 11,
     primary |-> TRUE, technical |-> FALSE],
    [example |-> "user_id", secondary |-> 2, contextual |-> 0, stripped |-> 7,
     primary |-> FALSE, technical |-> FALSE],
    [example |-> "UserService", secondary |-> 3, contextual |-> 0, stripped |-> 11,
     primary |-> TRUE, technical |-> FALSE],
    [example |-> "API", secondary |-> 3, contextual |-> 5, stripped |-> 3,
     primary |-> FALSE, technical |-> TRUE],
    [example |-> "'a b'", secondary |-> 0, contextual |-> 2, stripped |-> 2,
     primary |-> FALSE, technical |-> FALSE],
    [example |-> "1.2.3", secondary |-> 0, contextual |-> 4, stripped |-> 5,
     primary |-> FALSE, technical |-> FALSE],
    [example |-> "login", secondary |-> 0, contextual |-> 0, stripped |-> 5,
     primary |-> TRUE, technical |-> FALSE],
    [example |-> "error: timed out", secondary |-> 0, contextual |-> 6, stripped |-> 14,
     primary |-> FALSE, technical |-> FALSE],
    [example |-> "react", secondary |-> 0, contextual |-> 0, stripped |-> 5,
     primary |-> FALSE, technical |-> TRUE] >>

\* orders in which the kinds of words follow each other in a text
IssueLayouts == << <<7, 1, 5, 6, 9, 3, 8, 2, 4>>, <<1, 3, 2, 4>>, <<6, 4, 8>> >>

IssueSizes == {0, 1, 6, MaxTokens}

\* n tokens; when repeat holds the same few words come again and again
Tokens(layout, n, repeat) ==
    [k \in 1..n |->
        LET cycle == Len(IssueLayouts[layout])
            slot == ((k - 1) % cycle) + 1
        IN  [word |-> IF repeat THEN slot ELSE k, kind |-> IssueLayouts[layout][slot]]]

\* a GitHubIssue: the title is the first tokens of the text, the body is the
\* rest; the body of an issue can be missing
NoBody == [undefined |-> TRUE]

Issue(layout, n, repeat) ==
    LET tokens == Tokens(layout, n, repeat)
    IN  [title |-> Slice(tokens, 0, 2),
         body |-> IF n <= 2 THEN NoBody ELSE Slice(tokens, 2, n)]

Issues ==
    {Issue(layout, n, repeat) :
        layout \in 1..Len(IssueLayouts), n \in IssueSizes, repeat \in BOOLEAN}

\* line 278: `${issue.title} ${issue.body || ''}`
IssueText(issue) == issue.title \o (IF issue.body = NoBody THEN <<>> ELSE issue.body)

Words(tokens) == [k \in 1..Len(tokens) |-> tokens[k].word]

\* [...new Set(matches)]: the first occurrence of every element, in order
RECURSIVE Dedupe(_)
Dedupe(s) ==
    IF s = <<>> THEN <<>>
    ELSE LET rest == Dedupe(SubSeq(s, 1, Len(s) - 1))
             last == s[Len(s)]
         IN  IF \E k \in 1..Len(rest) : rest[k] = last THEN rest ELSE Append(rest, last)

\* BaseAnalysisStrategy.extractPrimaryKeywords: deduplicated, capped
extractPrimaryKeywords(text) ==
    Slice(Dedupe(Words(SelectSeq(text, LAMBDA t : WordKinds[t.kind].primary))), 0, 10)

\* BaseAnalysisStrategy.extractTechnicalTerms: deduplicated, capped
extractTechnicalTerms(text) ==
    Slice(Dedupe(Words(SelectSeq(text, LAMBDA t : WordKinds[t.kind].technical))), 0, 10)

\* lines 288-302: the matches of each pattern in turn, deduplicated, first 15
extractSecondaryKeywords(text) ==
    LET found(p) == SelectSeq(text, LAMBDA t : WordKinds[t.kind].secondary = p)
        matches == found(1) \o found(2) \o found(3)
    IN  Slice(Dedupe(Words(matches)), 0, 15)

\* lines 304-322: the matches of each pattern in turn, stripped of quotes and
\* spaces, those longer than 2 deduplicated, first 10
extractContextualKeywords(text) ==
    LET found(p) == SelectSeq(text, LAMBDA t : WordKinds[t.kind].contextual = p)
        matches == found(1) \o found(2) \o found(3) \o found(4) \o found(5)
                   \o found(6) \o found(7)
        long == SelectSeq(matches, LAMBDA t : WordKinds[t.kind].stripped > 2)
    IN  Slice(Dedupe(Words(long)), 0, 10)

\* lines 277-286
fallbackKeywordGeneration(issue) ==
    LET text == IssueText(issue)
    IN  [primary |-> extractPrimaryKeywords(text),
         secondary |-> extractSecondaryKeywords(text),
         technical |-> extractTechnicalTerms(text),
         contextual |-> extractContextualKeywords(text)]

\* what llmService.analyzeIssueForKeywords can settle with: a rejection, an
\* analysis, or an analysis that lacks one of the lists spread in lines 48-50
Analysis(words) ==
    [primary_keywords |-> words, component_names |-> <<101>>, technical_terms |-> <<>>,
     error_patterns |-> <<102>>, file_patterns |-> <<103, 104>>,
     search_strategies |-> <<105>>]

IncompleteAnalysis == [primary_keywords |-> <<100>>, component_names |-> <<101>>,
                       technical_terms |-> <<>>, file_patterns |-> <<103>>]

KeywordInferences == {Thrown, Analysis(<<>>), Analysis(<<100, 106>>), IncompleteAnalysis}

\* the iterables spread into the contextual tier, lines 47-51
SpreadFields == {"error_patterns", "file_patterns", "search_strategies"}

\* the generateKeywords of a strategy whose catch block rethrows
GenerateKeywordsRethrowing(issue, inference) ==
    IF inference = Thrown \/ ~(SpreadFields \subseteq DOMAIN inference)
    THEN [rejected |-> TRUE, keywords |-> Null]
    ELSE [rejected |-> FALSE,
          keywords |-> [primary |-> inference.primary_keywords,
                        secondary |-> inference.component_names,
                        technical |-> inference.technical_terms,
                        contextual |-> inference.error_patterns \o inference.file_patterns
                                       \o inference.search_strategies]]

\* lines 39-56: what the promise of generateKeywords settles with once the
\* awaited inference has settled; spreading a missing list throws inside the try
GenerateKeywordsSettles(issue, inference) ==
    IF inference = Thrown \/ ~(SpreadFields \subseteq DOMAIN inference)
    THEN [rejected |-> FALSE, keywords |-> fallbackKeywordGeneration(issue)]
    ELSE [rejected |-> FALSE,
          keywords |-> [primary |-> inference.primary_keywords,
                        secondary |-> inference.component_names,
                        technical |-> inference.technical_terms,
                        contextual |-> inference.error_patterns \o inference.file_patterns
                                       \o inference.search_strategies]]

\* generateKeywords runs up to the await of line 41
CallGenerateKeywords(issue) ==
    /\ pc = "idle"
    /\ op' = "generateKeywords"
    /\ args' = issue
    /\ pc' = "inferring"
    /\ UNCHANGED <<keywordInference, batchSize, maxFilesToAnalyze, context, fileScores,
                   topCandidates, loadIdx, candidates, candidateFiles, filesToAnalyze, i,
                   batch, batchResults, llmAnalyzedFiles, result, available, serviceCheck,
                   usualJudgment, batchNo, callsStarted, callBatch, callResult, contentReads>>

\* analyzeIssueForKeywords settles and generateKeywords runs to its end
KeywordInferenceSettles(inference) ==
    /\ pc = "inferring"
    /\ keywordInference' = inference
    /\ LET settled == GenerateKeywordsSettles(args, inference)
       IN  IF settled.rejected
           THEN pc' = "rejected" /\ UNCHANGED result
           ELSE pc' = "returned" /\ result' = settled.keywords
    /\ UNCHANGED <<op, args, batchSize, maxFilesToAnalyze, context, fileScores,
                   topCandidates, loadIdx, candidates, candidateFiles, filesToAnalyze, i,
                   batch, batchResults, llmAnalyzedFiles, available, serviceCheck,
                   usualJudgment, batchNo, callsStarted, callBatch, callResult, contentReads>>

----------------------------------------------------------------------------
(* calculateConfidence, lines 193-202 *)

\* the bonus of line 199
ReasonBonus == 2000

\* what BaseAnalysisStrategy.calculateConfidence can return for a result
BaseConfidences == {0, 3000, 8000, 9000, 10000}

\* files of an AnalysisResult: one kept by the external judgment carries the
\* reason of the judgment, which can be the empty string; one that comes from
\* the candidate filter carries none
Explained(k) == [path |-> k, relevanceScore |-> 9000, reason |-> "reason"]
Unexplained(k) == [path |-> k, relevanceScore |-> 9000, reason |-> ""]
Fallback(k) == [path |-> k, relevanceScore |-> 7300]

ResultFiles ==
    { <<>>, <<Fallback(1)>>, <<Unexplained(1)>>, <<Explained(1)>>,
      <<Fallback(1), Unexplained(2), Explained(3)>>, <<Explained(1), Explained(2)>> }

\* an AnalysisResult; baseline is the value the base class computes from it
AnalysisResults ==
    {[files |-> files, baseline |-> base] : files \in ResultFiles, base \in BaseConfidences}

\* BaseAnalysisStrategy.calculateConfidence: a value of [0, 1] that does not
\* depend on the reasons
BaseConfidence(res) == res.baseline

\* line 198: result.files.some(f => f.reason)
HasReasons(res) ==
    \E k \in 1..Len(res.files) :
        "reason" \in DOMAIN res.files[k] /\ res.files[k].reason # ""

\* a calculateConfidence that returns the sum without the cap of line 201
calculateConfidenceUncapped(res) ==
    BaseConfidence(res) + (IF HasReasons(res) THEN ReasonBonus ELSE 0)

\* a calculateConfidence that adds no bonus
calculateConfidenceWithoutBonus(res) == Min(BaseConfidence(res), 10000)

calculateConfidence(res) ==
    LET baseConfidence == BaseConfidence(res)
        reasonBonus == IF HasReasons(res) THEN ReasonBonus ELSE 0
    IN  Min(baseConfidence + reasonBonus, 10000)

CallCalculateConfidence(res) ==
    /\ pc = "idle"
    /\ op' = "calculateConfidence"
    /\ args' = res
    /\ result' = calculateConfidence(res)
    /\ pc' = "returned"
    /\ UNCHANGED <<keywordInference, batchSize, maxFilesToAnalyze, context, fileScores,
                   topCandidates, loadIdx, candidates, candidateFiles, filesToAnalyze, i,
                   batch, batchResults, llmAnalyzedFiles, available, serviceCheck,
                   usualJudgment, batchNo, callsStarted, callBatch, callResult, contentReads>>

----------------------------------------------------------------------------
(* The scorers applied to one more keyword match *)

Tiers == <<"primary", "secondary", "technical", "contextual">>

\* where in the path the keyword is found
Places == {"fileName", "dirName"}

\* numbers of occurrences of the keyword in the content
MatchCounts == {1, 3, 25}

\* the path of the kind, scored with one more keyword in the tier, found at the
\* place: a primary or secondary keyword is looked up in the file name, then in
\* the directory name, a technical or contextual one in the full path
WithPathHit(kind, tier, place) ==
    [kind EXCEPT !.hits =
        CASE tier = "primary" /\ place = "fileName"   -> [@ EXCEPT !.primaryFile = @ + 1]
          [] tier = "primary" /\ place = "dirName"    -> [@ EXCEPT !.primaryDir = @ + 1]
          [] tier = "secondary" /\ place = "fileName" -> [@ EXCEPT !.secondaryFile = @ + 1]
          [] tier = "secondary" /\ place = "dirName"  -> [@ EXCEPT !.secondaryDir = @ + 1]
          [] tier = "technical"                       -> [@ EXCEPT !.technical = @ + 1]
          [] tier = "contextual"                      -> [@ EXCEPT !.contextual = @ + 1]]

\* the content, scored with one more keyword in the tier, found n times
WithContentMatch(content, tier, n) ==
    [content EXCEPT !.matches =
        CASE tier = "primary"    -> [@ EXCEPT !.primary = Append(@, n)]
          [] tier = "secondary"  -> [@ EXCEPT !.secondary = Append(@, n)]
          [] tier = "technical"  -> [@ EXCEPT !.technical = Append(@, n)]
          [] tier = "contextual" -> [@ EXCEPT !.contextual = Append(@, n)]]

\* the kinds of file whose content pass 2 scores (line 249)
ScoredKinds ==
    {k \in 1..Len(PathKinds) : PathKinds[k].content.readable /\ PathKinds[k].content.length > 0}

CallCalculateFilePathScore(kind, tier, place) ==
    /\ pc = "idle"
    /\ op' = "calculateFilePathScore"
    /\ args' = [kind |-> kind, tier |-> tier, place |-> place]
    /\ result' = calculateFilePathScore(WithPathHit(PathKinds[kind], Tiers[tier], place))
    /\ pc' = "returned"
    /\ UNCHANGED <<keywordInference, batchSize, maxFilesToAnalyze, context, fileScores,
                   topCandidates, loadIdx, candidates, candidateFiles, filesToAnalyze, i,
                   batch, batchResults, llmAnalyzedFiles, available, serviceCheck,
                   usualJudgment, batchNo, callsStarted, callBatch, callResult, contentReads>>

CallCalculateContentScore(kind, tier, n) ==
    /\ pc = "idle"
    /\ op' = "calculateContentScore"
    /\ args' = [kind |-> kind, tier |-> tier, matches |-> n]
    /\ result' = calculateContentScore(WithContentMatch(PathKinds[kind].content, Tiers[tier], n))
    /\ pc' = "returned"
    /\ UNCHANGED <<keywordInference, batchSize, maxFilesToAnalyze, context, fileScores,
                   topCandidates, loadIdx, candidates, candidateFiles, filesToAnalyze, i,
                   batch, batchResults, llmAnalyzedFiles, available, serviceCheck,
                   usualJudgment, batchNo, callsStarted, callBatch, callResult, contentReads>>

----------------------------------------------------------------------------

Next ==
    \/ \E layout \in 1..Len(Layouts), n \in WorkspaceSizes, usual \in UsualJudgments :
          CallFindRelevantFiles(layout, n, usual)
    \/ LoadFileContent
    \/ ResumeWithCandidates
    \/ StartBatch
    \/ \E k \in 1..DefaultMaxFilesToAnalyze + MaxPaths, outcome \in Outcomes : SettleCall(k, outcome)
    \/ ResumeAfterBatch
    \/ ReturnFiles
    \/ \E ctx \in SymbolContexts : CallFindRelevantSymbols(ctx)
    \/ \E ctx \in SymbolContexts : CallFindRelevantApis(ctx)
    \/ \E check \in AvailabilityChecks : CallIsAvailable(check)
    \/ \E issue \in Issues : CallGenerateKeywords(issue)
    \/ \E inference \in KeywordInferences : KeywordInferenceSettles(inference)
    \/ \E res \in AnalysisResults : CallCalculateConfidence(res)
    \/ \E kind \in 1..Len(PathKinds), tier \in 1..Len(Tiers), place \in Places :
          CallCalculateFilePathScore(kind, tier, place)
    \/ \E kind \in ScoredKinds, tier \in 1..Len(Tiers), n \in MatchCounts :
          CallCalculateContentScore(kind, tier, n)

Spec == Init /\ [][Next]_vars

----------------------------------------------------------------------------
(* Properties *)

Started(p) == callsStarted[p] > 0

\* every call started for path p has settled
Settled(p) == Len(callResult[p]) = callsStarted[p]

\* the batch in which the call for p was started has been aggregated (lines 96-111)
Aggregated(p) == Started(p) /\ (callBatch[p] < batchNo \/ pc \in {"loop", "returned"})

RetainedPaths == {llmAnalyzedFiles[k].path : k \in 1..Len(llmAnalyzedFiles)}

FilesReturned == op = "findRelevantFiles" /\ pc = "returned"

\* C1: while calls of findRelevantFiles are in flight, their number does not
\* exceed batchSize.
InFlightWithinBatchSize == InFlight > 0 => InFlight <= batchSize

\* C2: batches run one after another: once a later batch has been started,
\* every call of every earlier batch has settled, and when a file is in the
\* retained list, every call of its batch has settled.
BatchesRunOneAfterAnother ==
    LET retainedBatches == {callBatch[p] : p \in RetainedPaths}
    IN  \A p \in Paths :
           Started(p) =>
              /\ callBatch[p] < batchNo => Settled(p)
              /\ callBatch[p] \in retainedBatches => Settled(p)

\* C2 witness: in a second or later batch one call has settled while another is
\* still pending, and files of earlier batches are retained.
SecondBatchHalfSettled ==
    /\ pc = "await"
    /\ batchNo >= 2
    /\ Len(llmAnalyzedFiles) > 0
    /\ \E j \in 1..Len(batchResults), k \in 1..Len(batchResults) :
          batchResults[j].settled /\ ~batchResults[k].settled

FallbackIsTopFiveCandidates ==
    (FilesReturned /\ Len(llmAnalyzedFiles) = 0) =>
        /\ Len(result) = Min(Len(candidateFiles), 5)
        /\ \A k \in 1..Len(result) : result[k] = candidateFiles[k]

\* C4 witness: nothing was retained although more than 5 candidates exist and
\* calls were made.
FallbackCutsCandidates ==
    /\ FilesReturned
    /\ Len(llmAnalyzedFiles) = 0
    /\ Len(candidateFiles) > 5
    /\ batchNo > 0

\* C5: findRelevantFiles returns at most 10 entries, findRelevantSymbols at
\* most 10 and findRelevantApis at most 8.
ResultSizesCapped ==
    pc = "returned" =>
        /\ op = "findRelevantFiles" => Len(result) <= 10
        /\ op = "findRelevantSymbols" => Len(result) <= 10
        /\ op = "findRelevantApis" => Len(result) <= 8

\* C5 witness: more than 10 files were retained and 10 are returned.
MoreThanTenRetained == FilesReturned /\ Len(llmAnalyzedFiles) > 10 /\ Len(result) = 10

\* C6: a file whose call returned a judgment with is_relevant = false is not in
\* the retained list.
IrrelevantFilesNotRetained ==
    \A p \in Paths :
        (\E k \in 1..Len(callResult[p]) :
            callResult[p][k] # Thrown /\ ~callResult[p][k].is_relevant)
        => p \notin RetainedPaths

\* C6 witness: a batch with a file judged irrelevant has been aggregated and
\* other files are retained.
IrrelevantFileAggregated ==
    /\ Len(llmAnalyzedFiles) > 0
    /\ \E p \in Paths :
          Aggregated(p) /\ callResult[p][1] # Thrown /\ ~callResult[p][1].is_relevant

\* C7: when files are retained, the returned list holds min(10, retained) of
\* them, in non-increasing order of relevanceScore, and no retained file left
\* out has a higher relevanceScore than a returned one.
ResultIsTopTenByScore ==
    (FilesReturned /\ Len(llmAnalyzedFiles) > 0) =>
        /\ Len(result) = Min(Len(llmAnalyzedFiles), 10)
        /\ \A k \in 1..(Len(result) - 1) :
              result[k].relevanceScore >= result[k + 1].relevanceScore
        /\ \A j \in 1..Len(result), k \in 1..Len(result) :
              j # k => result[j].path # result[k].path
        /\ \A k \in 1..Len(result) :
              \E j \in 1..Len(llmAnalyzedFiles) : llmAnalyzedFiles[j] = result[k]
        /\ \A j \in 1..Len(llmAnalyzedFiles) :
              (\A k \in 1..Len(result) : result[k] # llmAnalyzedFiles[j]) =>
                 \A k \in 1..Len(result) :
                    result[k].relevanceScore >= llmAnalyzedFiles[j].relevanceScore

\* C7 witness: more than 10 files were retained, not in order of score, and a
\* file with a score below that of a returned file was left out.
UnsortedRetainedReturned ==
    /\ FilesReturned
    /\ Len(llmAnalyzedFiles) > 10
    /\ \E j \in 1..Len(llmAnalyzedFiles), k \in 1..Len(llmAnalyzedFiles) :
          j < k /\ llmAnalyzedFiles[j].relevanceScore < llmAnalyzedFiles[k].relevanceScore
    /\ \E j \in 1..Len(llmAnalyzedFiles) :
          /\ \A k \in 1..Len(result) : result[k] # llmAnalyzedFiles[j]
          /\ llmAnalyzedFiles[j].relevanceScore < result[Len(result)].relevanceScore

\* C8: once pass 1 has kept paths, there are at most 2 x maxFilesToAnalyze of
\* them, each has a path score above 0.3, and only kept paths are read.
PassOneBounded ==
    Len(topCandidates) > 0 =>
        /\ Len(topCandidates) <= 2 * maxFilesToAnalyze
        /\ \A k \in 1..Len(topCandidates) :
              calculateFilePathScore(KindOf(topCandidates[k])) > 3000
        /\ contentReads \subseteq {topCandidates[k] : k \in 1..Len(topCandidates)}

\* C9: every entry returned by findRelevantFiles has a relevanceScore in [0, 1].
ReturnedScoresInUnitInterval ==
    FilesReturned =>
        \A k \in 1..Len(result) :
            result[k].relevanceScore >= 0 /\ result[k].relevanceScore <= 10000

\* C10: when the availability check of the service fails, by a synchronous
\* throw or by a rejected promise, isAvailable resolves to false.
IsAvailableNeverPropagates ==
    (op = "isAvailable" /\ serviceCheck \in {"throws", "rejected promise"}) =>
        (pc = "returned" /\ available = "false")

ConfidenceReturned == op = "calculateConfidence" /\ pc = "returned"

\* the result passed to calculateConfidence, with every reason emptied
WithoutReasons(res) ==
    [res EXCEPT !.files =
        [k \in 1..Len(res.files) |->
            IF "reason" \in DOMAIN res.files[k]
            THEN [res.files[k] EXCEPT !.reason = ""]
            ELSE res.files[k]]]

\* C12: the value calculateConfidence returns is in [0, 1].
ConfidenceInUnitInterval == ConfidenceReturned => (result >= 0 /\ result <= 10000)

\* C12 witness: base confidence and bonus add up to more than 1 and the value
\* returned is 1.
ConfidenceCapped ==
    /\ ConfidenceReturned
    /\ HasReasons(args)
    /\ args.baseline = 9000
    /\ result = 10000

\* C13 as stated: of two results that differ only in that one has a non-empty
\* reason on some file, the one with the reason has the strictly greater
\* confidence.
ReasonRaisesConfidence ==
    (ConfidenceReturned /\ HasReasons(args)) =>
        result > calculateConfidence(WithoutReasons(args))

\* C13 as amended: the confidence of the result with the reason is the
\* confidence of the result without it plus 0.2, capped at 1: it is strictly
\* greater when the confidence without the reason is below 1, and equal to it
\* when that confidence is 1.
ReasonRaisesConfidenceUpToCap ==
    (ConfidenceReturned /\ HasReasons(args)) =>
        LET without == calculateConfidence(WithoutReasons(args))
        IN  /\ ~HasReasons(WithoutReasons(args))
            /\ result = Min(without + ReasonBonus, 10000)
            /\ without < 10000 => result > without
            /\ without = 10000 => result = without

\* C13 witness: the result has a reason next to files without one and a base
\* confidence of 1, and the value returned is 1.
ReasonAtFullConfidence ==
    /\ ConfidenceReturned
    /\ HasReasons(args)
    /\ Len(args.files) > 1
    /\ calculateConfidence(WithoutReasons(args)) = 10000
    /\ result = 10000

\* C14: without a symbol-analysis result findRelevantSymbols and
\* findRelevantApis return the empty list; when the candidate filter produces
\* no file, findRelevantFiles starts no batch, makes no analyzeCodeRelevance
\* call, does not reject and returns the empty list.
EmptyInputsGiveEmptyResults ==
    /\ (op \in {"findRelevantSymbols", "findRelevantApis"} /\ ~context.hasSymbolAnalysis) =>
          (pc = "returned" /\ result = <<>>)
    /\ (op = "findRelevantFiles" /\ pc # "pass2" /\ candidateFiles = <<>>) =>
          /\ pc \in {"loop", "returned"}
          /\ batchNo = 0
          /\ \A p \in Paths : callsStarted[p] = 0
          /\ pc = "returned" => result = <<>>

\* C14 witness: the workspace has paths, some of them passed the path filter
\* and were read, none became a candidate, and the empty list was returned.
NoCandidateReturnsEmpty ==
    /\ FilesReturned
    /\ maxFilesToAnalyze > 0
    /\ Len(topCandidates) > 1
    /\ contentReads # {}
    /\ candidateFiles = <<>>
    /\ result = <<>>

Readable(file) == KindOf(file).content.readable

\* the candidates pass 2 produces for the readable files of a list when the
\* unreadable paths are in neither the list nor the score map
RECURSIVE CandidatesWithoutUnreadable(_)
CandidatesWithoutUnreadable(files) ==
    IF files = <<>> THEN <<>>
    ELSE LET file == Head(files)
             scores == SelectSeq(fileScores, LAMBDA e : Readable(e.file))
         IN  (IF Readable(file) THEN CandidatesOf(file, KindOf(file).content, scores)
              ELSE <<>>)
             \o CandidatesWithoutUnreadable(Tail(files))

\* C15: a pass-1 survivor whose content cannot be read is skipped silently: it
\* is in neither the candidates collected nor the list the filter returns,
\* findRelevantFiles does not reject, and the candidates collected from the
\* survivors handled so far are those the readable ones produce on their own.
UnreadableFilesSkipped ==
    op = "findRelevantFiles" =>
        /\ pc # "rejected"
        /\ \A k \in 1..Len(candidateFiles) : Readable(candidateFiles[k].path)
        /\ (pc = "pass2" \/ (pc = "loop" /\ batchNo = 0)) =>
              LET handled == SubSeq(topCandidates, 1, loadIdx - 1)
              IN  /\ \A k \in 1..Len(handled) : handled[k] \in contentReads
                  /\ \A k \in 1..Len(candidates) : Readable(candidates[k].path)
                  /\ candidates = CandidatesWithoutUnreadable(handled)

\* C15 witness: pass 2 is over, an unreadable survivor was handed to the reader,
\* and a readable survivor that comes after it is a candidate.
ReadableAfterUnreadableKept ==
    /\ op = "findRelevantFiles"
    /\ pc = "loop"
    /\ batchNo = 0
    /\ \E j \in 1..Len(topCandidates), k \in 1..Len(topCandidates) :
          /\ j < k
          /\ ~Readable(topCandidates[j])
          /\ topCandidates[j] \in contentReads
          /\ \E c \in 1..Len(candidateFiles) : candidateFiles[c].path = topCandidates[k]

\* the score of the path of the call with its keyword moved to another tier
PathScoreInTier(tier) ==
    calculateFilePathScore(WithPathHit(PathKinds[args.kind], Tiers[tier], args.place))

\* the score of the content of the call with its keyword moved to another tier
ContentScoreInTier(tier) ==
    calculateContentScore(WithContentMatch(PathKinds[args.kind].content, Tiers[tier],
                                           args.matches))

RECURSIVE CandidatesInOrder(_, _)
CandidatesInOrder(files, entries) ==
    IF files = <<>> THEN <<>>
    ELSE CandidatesOf(Head(files), KindOf(Head(files)).content, entries)
         \o CandidatesInOrder(Tail(files), entries)

\* the list findCandidateFiles returns, from the context and the configuration
CandidatesOfContext ==
    LET entries == PathScoreEntries(context.filteredFiles)
        found == CandidatesInOrder(TopCandidates(entries, maxFilesToAnalyze), entries)
    IN  SortDescending(found, RelevanceScores(found))

\* what a file contributes to the retained list, from the outcome of its call
RetainedByOutcome(file) ==
    LET outcome == callResult[file.path][1]
    IN  IF outcome = Thrown THEN << file >>
        ELSE IF outcome.is_relevant
             THEN << [path |-> file.path, content |-> file.content,
                      relevanceScore |-> outcome.relevance_score,
                      reason |-> outcome.reason] >>
             ELSE <<>>

\* the retained list, from the outcome of each call, in candidate order
RECURSIVE RetainedInCandidateOrder(_)
RetainedInCandidateOrder(files) ==
    IF files = <<>> THEN <<>>
    ELSE RetainedByOutcome(Head(files)) \o RetainedInCandidateOrder(Tail(files))

\* C17: the list findRelevantFiles returns is determined by the context, the
\* configuration and the outcome of the call of each file, whatever the order
\* in which the calls of a batch settle: the candidates are a function of the
\* context, a settled call fills the slot of its own file, and the list
\* returned is the ranking of what the outcomes retain in candidate order.
ResultIndependentOfSettleOrder ==
    op = "findRelevantFiles" =>
        /\ (pc = "loop" /\ batchNo = 0) =>
              /\ candidateFiles = CandidatesOfContext
              /\ filesToAnalyze = Slice(candidateFiles, 0, maxFilesToAnalyze)
        /\ pc = "await" =>
              \A k \in 1..Len(batchResults) :
                  batchResults[k].settled =>
                     /\ batchResults[k].file = batch[k]
                     /\ LET outcomes == callResult[batch[k].path]
                            outcome == outcomes[Len(outcomes)]
                        IN  batchResults[k].llmAnalysis =
                               (IF outcome = Thrown THEN Null ELSE outcome)
        /\ pc = "returned" =>
              /\ \A k \in 1..Len(filesToAnalyze) :
                    Len(callResult[filesToAnalyze[k].path]) = 1
              /\ result = RankedFiles(RetainedInCandidateOrder(filesToAnalyze), candidateFiles)

\* C17 witness: in a batch the call of a later file has settled, with an outcome
\* that is not the usual one, before the call of an earlier file, after an
\* earlier batch left files in the retained list.
LaterCallSettledFirst ==
    /\ op = "findRelevantFiles"
    /\ pc = "await"
    /\ Len(llmAnalyzedFiles) > 0
    /\ \E j \in 1..Len(batchResults), k \in 1..Len(batchResults) :
          /\ j < k
          /\ ~batchResults[j].settled
          /\ batchResults[k].settled
          /\ callResult[batch[k].path] # <<usualJudgment>>

\* number of analyzeCodeRelevance calls started so far
TotalCalls == SumSeq([p \in Paths |-> callsStarted[p]])

\* C18: analyzeCodeRelevance is called for the first
\* min(maxFilesToAnalyze, number of candidates) candidates and for no other
\* file, once each by the time findRelevantFiles returns; the number of calls
\* never exceeds maxFilesToAnalyze; a batch is the run of files that follows
\* the files of the earlier batches in candidate order.
CallsOncePerAnalyzedFile ==
    (op = "findRelevantFiles" /\ pc \in {"loop", "await", "returned"}) =>
        LET budget == Min(maxFilesToAnalyze, Len(candidateFiles))
            first == {candidateFiles[k].path : k \in 1..budget}
        IN  /\ TotalCalls > 0 => TotalCalls <= maxFilesToAnalyze
            /\ \A p \in Paths : callsStarted[p] <= 1
            /\ \A p \in Paths : callsStarted[p] > 0 => p \in first
            /\ pc = "returned" => \A p \in first : callsStarted[p] = 1
            /\ pc = "await" =>
                  /\ TotalCalls = i + Len(batch)
                  /\ \A k \in 1..Len(batch) : batch[k] = candidateFiles[i + k]

\* C19: for every configuration the constructor accepts, findRelevantFiles
\* comes to its return once its reads and calls settle, because every pass
\* through the batch loop moves the loop index strictly forward, towards the
\* end of the list of files to analyse.
LoopIndexAdvances ==
    [][(op = "findRelevantFiles" /\ pc = "await" /\ pc' = "loop") => i' > i]_vars

====
